---- MODULE Spec2Model ----
(***************************************************************************)
(* A model of VeriPy's probabilistic-forecast verification engine:         *)
(* veripy/Probabilistic.py, veripy/Forecast.py, veripy/tools/GenericCDF.py *)
(* and veripy/tools/ConfidenceIntervals.py.                                *)
(*                                                                         *)
(* Numbers.  A float is modelled by the exact rational it stands for, a    *)
(* reduced pair <<n, d>> with d > 0;  <<0, 0>> is numpy's nan and          *)
(* <<1, 0>>, <<-1, 0>> are +inf and -inf.  Inputs of add_data are given    *)
(* in tenths (5 is 0.5, 10 is 1.0), so that out-of-range forecasts and     *)
(* non-integral observations can be written.                               *)
(*                                                                         *)
(* Optional arguments (seed=None, model=None) are sequences of length at   *)
(* most one: << >> is None and <<v>> is the value v.                       *)
(***************************************************************************)
EXTENDS Integers, Sequences, FiniteSets, TLC

VARIABLES
    data,   \* Probabilistic._data : sequence of <<forecast (tenths), observed>>
    boot,   \* Probabilistic._boot : None or the replicate matrix
    stats,  \* Probabilistic._stats: {} or the calculated statistics
    rng,    \* state of the module-global generator of Python's random
    ret,    \* the call the caller is looking at: its name, arguments,
            \* exception and return value; Idle when it has moved on
    again,  \* TRUE when that call repeated the call before it
    booted, \* TRUE when a bootstrap(N), N >= 1, has returned since the last
            \* pair was accepted
    samplers \* the GenericCDF objects the caller has constructed itself

vars == <<data, boot, stats, rng, ret, again, booted, samplers>>

---------------------------------------------------------------------------
(* Bounds of the model *)

\* longest observation sequence explored
MaxObs == 3

\* largest replicate count N passed to bootstrap
MaxBoot == 1

\* longest observation sequence explored when every threshold policy is tried
MaxCurveObs == 3

\* longest observation sequence built from the pairs of the worked example
MaxScenarioObs == 4

\* observations of the curve-shape exploration
MaxShapeObs == 4

\* observations and bins of the histogram exploration
MaxHistObs == 4
MaxBins == 2

\* the largest count in a cell of a contingency table
MaxCount == 3

\* GenericCDF objects a caller constructs, and draws it makes from them
MaxSamplers == 2
MaxDraws == 2

---------------------------------------------------------------------------
(* Rational arithmetic standing for float arithmetic *)

RECURSIVE GCD(_, _)
GCD(a, b) == IF b = 0 THEN a ELSE GCD(b, a % b)

Abs(a) == IF a < 0 THEN -a ELSE a

Sgn(a) == IF a < 0 THEN -1 ELSE IF a > 0 THEN 1 ELSE 0

\* the value n/d; a zero denominator gives numpy's nan or signed infinity
Rat(n, d) ==
    IF d = 0 THEN <<Sgn(n), 0>>
    ELSE LET g == GCD(Abs(n), Abs(d))
             s == IF d < 0 THEN -1 ELSE 1
         IN  <<(s * n) \div g, (s * d) \div g>>

Zero == <<0, 1>>
One == <<1, 1>>
NaN == <<0, 0>>

IsFinite(a) == a[2] # 0
IsNaN(a) == a = NaN

\* comparisons: every comparison with nan is false
RatLT(a, b) ==
    /\ ~IsNaN(a) /\ ~IsNaN(b)
    /\ IF IsFinite(a) /\ IsFinite(b) THEN a[1] * b[2] < b[1] * a[2]
       ELSE IF IsFinite(a) THEN b[1] > 0
       ELSE IF IsFinite(b) THEN a[1] < 0
       ELSE a[1] < b[1]
RatEQ(a, b) == ~IsNaN(a) /\ ~IsNaN(b) /\ a = b
RatLE(a, b) == RatLT(a, b) \/ RatEQ(a, b)
RatGE(a, b) == RatLE(b, a)

RatNeg(a) == <<-a[1], a[2]>>
RatAdd(a, b) ==
    IF IsFinite(a) /\ IsFinite(b) THEN Rat(a[1] * b[2] + b[1] * a[2], a[2] * b[2])
    ELSE IF IsNaN(a) \/ IsNaN(b) THEN NaN
    ELSE IF IsFinite(a) THEN b
    ELSE IF IsFinite(b) THEN a
    ELSE IF a = b THEN a ELSE NaN
RatSub(a, b) == RatAdd(a, RatNeg(b))
RatMul(a, b) ==
    IF IsFinite(a) /\ IsFinite(b) THEN Rat(a[1] * b[1], a[2] * b[2])
    ELSE IF IsNaN(a) \/ IsNaN(b) THEN NaN
    ELSE <<Sgn(a[1]) * Sgn(b[1]), 0>>
\* numpy division: x/0 is nan or inf, never an exception
RatDiv(a, b) ==
    IF IsFinite(a) /\ IsFinite(b) THEN Rat(a[1] * b[2], a[2] * b[1])
    ELSE IF IsNaN(a) \/ IsNaN(b) THEN NaN
    ELSE IF IsFinite(a) THEN Zero
    ELSE IF IsFinite(b) THEN <<Sgn(a[1]) * (IF b[1] < 0 THEN -1 ELSE 1), 0>>
    ELSE NaN
RatAbs(a) == <<Abs(a[1]), a[2]>>

\* a probability given in tenths, as the float it is
Tenths(f) == Rat(f, 10)

RECURSIVE SumSeq(_)
SumSeq(s) == IF s = << >> THEN 0 ELSE Head(s) + SumSeq(Tail(s))

\* a sequence given as a function, as the tuple of its elements
AsTuple(s) == << >> \o s

\* the forecast column (as floats) and the observed column of _data
Forecasts(d) == AsTuple([i \in 1..Len(d) |-> Rat(d[i][1], 10)])
Observed(d) == AsTuple([i \in 1..Len(d) |-> d[i][2]])

---------------------------------------------------------------------------
(* The module-global random generator, random.seed and random.random.      *)
(* The generator is abstracted to a small deterministic cycle: a state, an *)
(* output in [0, 1) for each state, and a successor.  seed(None) takes the *)
(* state from system entropy, so any state; seed(s) sets the state that s  *)
(* determines.                                                             *)

RngStates == 1..3

\* random.random(): the uniform value of a state, in quarters (0, 0.5, 0.75)
RngValue(s) == Rat(<<0, 2, 3>>[s], 4)

RngNext(s) == (s % 3) + 1

\* random.seed(seed): the states the generator can be in afterwards
SeedStates(seed) ==
    IF seed = << >> THEN RngStates ELSE {(seed[1] % 3) + 1}

---------------------------------------------------------------------------
(* tools/GenericCDF.py *)

RECURSIVE Cumulate(_, _, _, _)
Cumulate(array, norm, sum, i) ==
    IF i > Len(array) THEN << >>
    ELSE <<RatDiv(RatAdd(sum, array[i]), norm)>>
         \o Cumulate(array, norm, RatAdd(sum, array[i]), i + 1)

RECURSIVE RatSum(_)
RatSum(s) == IF s = << >> THEN Zero ELSE RatAdd(Head(s), RatSum(Tail(s)))

\* GenericCDF.__init__ with Normalized=False: the normalised cumulative sums.
\* numpy is TRUE for a numpy array (x/0.0 is nan) and FALSE for a list of
\* Python numbers (x/0.0 raises ZeroDivisionError).
GenericCDF(array, numpy) ==
    LET norm == RatSum(array)
    IN  IF ~numpy /\ norm = Zero /\ Len(array) > 0
        THEN [err |-> "ZeroDivisionError", cdf |-> << >>]
        ELSE [err |-> "none", cdf |-> Cumulate(array, norm, Zero, 1)]

\* the while loop had it stepped over an equal cumulative value
RECURSIVE DrawLoopInclusive(_, _, _)
DrawLoopInclusive(cdf, u, indx) ==
    IF RatLE(cdf[indx], u) /\ indx < Len(cdf)
    THEN DrawLoopInclusive(cdf, u, indx + 1)
    ELSE indx

\* GenericCDF.draw: the while loop, with indx counted from 1
RECURSIVE DrawLoop(_, _, _)
DrawLoop(cdf, u, indx) ==
    IF RatLT(cdf[indx], u) /\ indx < Len(cdf)
    THEN DrawLoop(cdf, u, indx + 1)
    ELSE indx

\* GenericCDF.draw() for the uniform value u: the index drawn (from 1), or
\* 0 when self._cdf[0] does not exist (IndexError)
Draw(cdf, u) == IF Len(cdf) = 0 THEN 0 ELSE DrawLoop(cdf, u, 1)

---------------------------------------------------------------------------
(* Probabilistic.__init__ and the shape of the state *)

NoBoot == [set |-> FALSE, cols |-> 0, rows |-> << >>]
NoStats == << >>

NoVal == << >>

Ret(op, args, err, val) == [op |-> op, args |-> args, err |-> err, val |-> val]

Idle == Ret("idle", << >>, "none", NoVal)

---------------------------------------------------------------------------
(* Probabilistic.add_data *)

\* line 68: 0 <= forecast <= 1
ForecastOk(forecast) == 0 <= forecast /\ forecast <= 10

\* int(observed) for an observed given in tenths
IntOf(observed) == observed \div 10

\* the test of line 73 without its integrality half
ObservedOkSignOnly(observed) == ~(observed < 0)

\* line 73: not (observed < 0 or observed != int(observed))
ObservedOk(observed) == ~(observed < 0 \/ observed # IntOf(observed) * 10)

\* the pair of line 78 with its members exchanged
StoredPairSwapped(forecast, observed) == <<IntOf(observed), forecast>>

\* line 78: the pair appended
StoredPair(forecast, observed) == <<forecast, IntOf(observed)>>

\* add_data without the reset of line 84
add_data_KeepStats(forecast, observed) ==
    IF ~ForecastOk(forecast) \/ ~ObservedOk(observed)
    THEN /\ ret' = Ret("add_data", <<forecast, observed>>, "ValueError", NoVal)
         /\ UNCHANGED <<data, boot, stats, rng>>
    ELSE /\ data' = Append(data, StoredPair(forecast, observed))
         /\ boot' = NoBoot
         /\ ret' = Ret("add_data", <<forecast, observed>>, "none", NoVal)
         /\ UNCHANGED <<stats, rng>>

add_data(forecast, observed) ==
    IF ~ForecastOk(forecast) \/ ~ObservedOk(observed)
    THEN /\ ret' = Ret("add_data", <<forecast, observed>>, "ValueError", NoVal)
         /\ UNCHANGED <<data, boot, stats, rng>>
    ELSE /\ data' = Append(data, StoredPair(forecast, observed))
         /\ boot' = NoBoot
         /\ stats' = NoStats
         /\ ret' = Ret("add_data", <<forecast, observed>>, "none", NoVal)
         /\ UNCHANGED rng

---------------------------------------------------------------------------
(* Probabilistic.bootstrap *)

\* a count of the observations with an event, in place of the sum of events
EventCountPositives(d) == Cardinality({i \in 1..Len(d) : d[i][2] >= 1})

\* line 610: NN = O.sum()
EventCount(d) == SumSeq(Observed(d))

ZeroRow(M) == AsTuple([j \in 1..M |-> 0])

\* a matrix with one row more than asked for
ZeroMatrixExtraRow(N, M) == AsTuple([i \in 1..(N + 1) |-> ZeroRow(M)])

\* line 613: numpy.zeros((N, len(F)))
ZeroMatrix(N, M) == AsTuple([i \in 1..N |-> ZeroRow(M)])

\* lines 616-619: the k-th of the N*NN draws.  Returns the matrix, the
\* generator state and the exception that ended the loop, if any.
RECURSIVE Fill(_, _, _, _, _, _)
Fill(rows, r, cdf, k, NN, N) ==
    IF k >= N * NN THEN [rows |-> rows, rng |-> r, err |-> "none"]
    ELSE LET i == (k \div NN) + 1
             indx == Draw(cdf, RngValue(r))
         IN  IF indx = 0 \/ indx > Len(rows[i])
             THEN [rows |-> rows, rng |-> RngNext(r), err |-> "IndexError"]
             ELSE Fill([rows EXCEPT ![i][indx] = @ + 1], RngNext(r),
                       cdf, k + 1, NN, N)

IntsAsRats(s) == AsTuple([i \in 1..Len(s) |-> Rat(s[i], 1)])

\* lines 599-607: the array the CDF is built from, whether it is a numpy
\* array, and the seed handed to GenericCDF
CdfSource(d, observed, model, seed) ==
    IF observed THEN [array |-> IntsAsRats(Observed(d)), numpy |-> TRUE, seed |-> seed]
    ELSE IF model = << >>
         THEN [array |-> Forecasts(d), numpy |-> TRUE, seed |-> << >>]
         ELSE [array |-> IntsAsRats(model[1]), numpy |-> FALSE, seed |-> << >>]

\* bootstrap(N, observed, model, seed) from generator state r0 (the state
\* random.seed left): the exception raised, _boot and the generator after.
\* map(None, *self._data) raises TypeError for no data; for one pair it
\* yields two scalars, whose arrays are 0-d: iterating one (GenericCDF over
\* O or F) or taking len(F) raises TypeError.
BootstrapFrom(d, b, N, observed, model, seed, r0) ==
    LET src == CdfSource(d, observed, model, seed)
        c == GenericCDF(src.array, src.numpy)
        filled == Fill(ZeroMatrix(N, Len(d)), r0, c.cdf, 0, EventCount(d), N)
    IN  IF Len(d) = 1 THEN [err |-> "TypeError", boot |-> b, rng |-> r0]
        ELSE IF c.err # "none" THEN [err |-> c.err, boot |-> b, rng |-> r0]
        ELSE [err |-> filled.err,
              boot |-> [set |-> TRUE, cols |-> Len(d), rows |-> filled.rows],
              rng |-> filled.rng]

bootstrap(N, observed, model, seed) ==
    IF Len(data) = 0
    THEN /\ ret' = Ret("bootstrap", <<N, observed, model, seed>>, "TypeError", NoVal)
         /\ UNCHANGED <<data, boot, stats, rng>>
    ELSE \E r0 \in SeedStates(CdfSource(data, observed, model, seed).seed) :
         \E res \in {BootstrapFrom(data, boot, N, observed, model, seed, r0)} :
             /\ boot' = res.boot
             /\ rng' = res.rng
             /\ ret' = Ret("bootstrap", <<N, observed, model, seed>>, res.err, NoVal)
             /\ UNCHANGED <<data, stats>>

---------------------------------------------------------------------------
(* Probabilistic._calc_curve: thresholds *)

\* a threshold argument: None, an int N, or a list of probabilities (tenths)
ThreshNone == [kind |-> "None", n |-> 0, l |-> << >>]
ThreshInt(n) == [kind |-> "int", n |-> n, l |-> << >>]
ThreshList(l) == [kind |-> "list", n |-> 0, l |-> l]

\* sorted(): insertion of v into an ascending sequence, after its equals
RECURSIVE InsertAsc(_, _)
InsertAsc(s, v) ==
    IF s = << >> THEN <<v>>
    ELSE IF RatLT(v, Head(s)) THEN <<v>> \o s
    ELSE <<Head(s)>> \o InsertAsc(Tail(s), v)

RECURSIVE SortAsc(_)
SortAsc(s) == IF s = << >> THEN << >> ELSE InsertAsc(SortAsc(Tail(s)), Head(s))

Reverse(s) == AsTuple([i \in 1..Len(s) |-> s[Len(s) + 1 - i]])

\* lines 266-272: the forecasts whose outcome in this row is >= 1 ...
RECURSIVE JumpPoints(_, _, _)
JumpPoints(forecast, obs, i) ==
    IF i > Len(forecast) THEN << >>
    ELSE (IF obs[i] >= 1 THEN <<forecast[i]>> ELSE << >>)
         \o JumpPoints(forecast, obs, i + 1)

\* the jump points without the sort of line 272
ExactJumpsUnsorted(forecast, obs) == JumpPoints(forecast, obs, 1)

\* ... sorted (line 272)
ExactJumps(forecast, obs) == SortAsc(JumpPoints(forecast, obs, 1))

SortedForecasts(forecast) == SortAsc(forecast)

\* lines 278-285: unit is True
UniformWidth(forecast, threshold) ==
    LET tmp == SortedForecasts(forecast)
        L == tmp[1]
        U == tmp[Len(tmp)]
        dx == RatDiv(RatSub(U, L), Rat(threshold + 1, 1))
    IN  AsTuple([i \in 1..(threshold + 1) |-> RatAdd(L, RatMul(Rat(i - 1, 1), dx))])

\* lines 288-291: int(NN*i/threshold) for i in xrange(threshold+1)
UniformMass(forecast, threshold) ==
    LET tmp == SortedForecasts(forecast)
        NN == Len(tmp) - 1
    IN  AsTuple([i \in 1..(threshold + 1) |-> tmp[((NN * (i - 1)) \div threshold) + 1]])

\* lines 295-298: the list as floats, 0.0 and 1.0 appended when absent, sorted
ExplicitList(l) ==
    LET tmp == AsTuple([i \in 1..Len(l) |-> Tenths(l[i])])
        has(v) == \E i \in 1..Len(tmp) : tmp[i] = v
        t0 == IF has(Zero) THEN tmp ELSE Append(tmp, Zero)
        t1 == IF \E i \in 1..Len(t0) : t0[i] = One THEN t0 ELSE Append(t0, One)
    IN  SortAsc(t1)

\* lines 265-298: the thresholds of one row of observed
RowThresholds(forecast, obs, threshold, unit) ==
    IF threshold.kind = "None" THEN ExactJumps(forecast, obs)
    ELSE IF threshold.kind = "int"
         THEN IF unit THEN UniformWidth(forecast, threshold.n)
              ELSE UniformMass(forecast, threshold.n)
         ELSE ExplicitList(threshold.l)

\* line 290 divides by threshold: NN*i/0 raises ZeroDivisionError
ThresholdsRaise(threshold, unit) ==
    threshold.kind = "int" /\ ~unit /\ threshold.n = 0

---------------------------------------------------------------------------
(* Probabilistic._calc_curve: confusion counts and curve points *)

\* the four tests with the forecast compared the other way round
RECURSIVE CountLoopBelow(_, _, _, _, _)
CountLoopBelow(forecast, obs, val, i, acc) ==
    IF i > Len(forecast) THEN acc
    ELSE LET ge == RatLE(forecast[i], val)
             lt == RatLT(val, forecast[i])
         IN  CountLoopBelow(forecast, obs, val, i + 1,
                 <<acc[1] + (IF ge /\ obs[i] >= 1 THEN 1 ELSE 0),
                   acc[2] + (IF ge /\ obs[i] = 0 THEN 1 ELSE 0),
                   acc[3] + (IF lt /\ obs[i] >= 1 THEN 1 ELSE 0),
                   acc[4] + (IF lt /\ obs[i] = 0 THEN 1 ELSE 0)>>)

\* lines 316-320: the four tests applied to observation i
RECURSIVE CountLoop(_, _, _, _, _)
CountLoop(forecast, obs, val, i, acc) ==
    IF i > Len(forecast) THEN acc
    ELSE LET ge == RatGE(forecast[i], val)
             lt == RatLT(forecast[i], val)
         IN  CountLoop(forecast, obs, val, i + 1,
                 <<acc[1] + (IF ge /\ obs[i] >= 1 THEN 1 ELSE 0),
                   acc[2] + (IF ge /\ obs[i] = 0 THEN 1 ELSE 0),
                   acc[3] + (IF lt /\ obs[i] >= 1 THEN 1 ELSE 0),
                   acc[4] + (IF lt /\ obs[i] = 0 THEN 1 ELSE 0)>>)

\* the counts with the false alarms and the misses exchanged
CountsSwapped(forecast, obs, val) ==
    LET n == CountLoop(forecast, obs, val, 1, <<0, 0, 0, 0>>)
    IN  <<n[1], n[3], n[2], n[4]>>

\* lines 311-320: <<a, b, c, d>> of one row at one threshold
Counts(forecast, obs, val) == CountLoop(forecast, obs, val, 1, <<0, 0, 0, 0>>)

\* lines 323-338: the point of <<a, b, c, d>>, or << >> when a division by
\* zero (of Python ints) drops it
Point(curve, n) ==
    LET a == n[1] b == n[2] c == n[3] d == n[4]
    IN  IF curve = "ERROR"
        THEN IF a + b + c + d = 0 \/ a + c = 0 THEN << >>
             ELSE <<<<Rat(a + b, a + b + c + d), Rat(c, a + c)>>>>
        ELSE IF b + d = 0 \/ a + c = 0 THEN << >>
             ELSE <<<<Rat(b, b + d), Rat(a, a + c)>>>>

\* lines 310-338 for one row: the points kept, in threshold order, from the
\* counts at each of its thresholds
RECURSIVE RowPoints(_, _, _)
RowPoints(curve, counts, k) ==
    IF k > Len(counts) THEN << >>
    ELSE Point(curve, counts[k]) \o RowPoints(curve, counts, k + 1)

\* the ROC anchor given to both curves
FirstAnchorRocOnly(curve) == <<One, One>>

\* lines 300-305 and 340-345: the two anchors of a curve
FirstAnchor(curve) == IF curve = "ERROR" THEN <<One, Zero>> ELSE <<One, One>>
LastAnchor(curve) == IF curve = "ERROR" THEN <<Zero, One>> ELSE <<Zero, Zero>>

\* every row taken for the primary one
IsPrimaryRowAny(j) == TRUE

\* line 331: j == 0, the row whose points are appended to x and y
IsPrimaryRow(j) == j = 1

\* lines 309-338: the points of the rows j.. that go to x and y (primary
\* TRUE) or to pairs (primary FALSE), in the order the loops produce them
RECURSIVE Collect(_, _, _, _)
Collect(curve, counts, j, primary) ==
    IF j > Len(counts) THEN << >>
    ELSE (IF IsPrimaryRow(j) = primary THEN RowPoints(curve, counts[j], 1) ELSE << >>)
         \o Collect(curve, counts, j + 1, primary)

\* lines 300-345: the primary curve, anchors included
PrimaryPoints(curve, counts) ==
    <<FirstAnchor(curve)>> \o Collect(curve, counts, 1, TRUE) \o <<LastAnchor(curve)>>

\* lines 307, 335: the null population
NullPairs(curve, counts) == Collect(curve, counts, 1, FALSE)

---------------------------------------------------------------------------
(* Probabilistic._calc_curve: confidence bands *)

\* A half-width is either a number (an empirical estimate, or the 0.0 of an
\* anchor) or the analytic fallback, kept as the call that computes it:
\* side 0 is p - CI(p, n, s)[0] and side 1 is CI(p, n, s)[1] - p, with s the
\* third argument of CI in thousandths.
NumTerm(q) == [kind |-> "num", q |-> q, p |-> Zero, n |-> 0, s |-> 0, side |-> 0]
CITerm(p, n, s, side) ==
    [kind |-> "CI", q |-> Zero, p |-> p, n |-> n, s |-> s, side |-> side]

ZeroBand == <<NumTerm(Zero), NumTerm(Zero)>>

\* line 350: scipy.special.erf(sigma/sqrt(2)) in thousandths, for sigma in
\* hundredths
SigLevel(sigma) == CASE sigma = 196 -> 950 [] sigma = 100 -> 683

\* line 354: the tolerance .01 of the neighbourhood, as 1/TolDen
TolDen == 100

Near(u, v) == RatLE(RatAbs(RatSub(u, v)), Rat(1, TolDen))

\* the values sel(pt) of the pairs that satisfy keep(pt), in the order of pairs
RECURSIVE Neighbours(_, _, _, _)
Neighbours(pairs, keep(_), sel(_), k) ==
    IF k > Len(pairs) THEN << >>
    ELSE (IF keep(pairs[k]) THEN <<sel(pairs[k])>> ELSE << >>)
         \o Neighbours(pairs, keep, sel, k + 1)

\* int(siglevel*len(tmp))
Rank(siglevel, k) == (siglevel * k) \div 1000

\* an order statistic taken only from two or more neighbours
HasOrderStatisticOfTwo(tmp, siglevel) ==
    Len(tmp) >= 2 /\ (siglevel * Len(tmp)) \div 1000 < Len(tmp)

\* tmp[int(siglevel*len(tmp))] exists
HasOrderStatistic(tmp, siglevel) == Rank(siglevel, Len(tmp)) < Len(tmp)

OrderStatistic(tmp, siglevel) == tmp[Rank(siglevel, Len(tmp)) + 1]

\* the third argument the fallback hands to CI (lines 359, 367, 375, 383)
CISigma(sigma) == SigLevel(sigma)

\* lines 353-383: the four half-widths of the point <<px, py>>
PointBands(pairs, px, py, M, Nobs, sigma) ==
    LET siglevel == SigLevel(sigma)
        X(pt) == pt[1]
        Y(pt) == pt[2]
        xl == Reverse(SortAsc(Neighbours(pairs,
                  LAMBDA pt : RatLE(pt[1], px) /\ Near(pt[2], py), X, 1)))
        xu == SortAsc(Neighbours(pairs,
                  LAMBDA pt : RatGE(pt[1], px) /\ Near(pt[2], py), X, 1))
        yl == Reverse(SortAsc(Neighbours(pairs,
                  LAMBDA pt : RatLE(pt[2], py) /\ Near(pt[1], px), Y, 1)))
        yu == SortAsc(Neighbours(pairs,
                  LAMBDA pt : RatGE(pt[2], py) /\ Near(pt[1], px), Y, 1))
        dxl == IF HasOrderStatistic(xl, siglevel)
               THEN NumTerm(RatSub(px, OrderStatistic(xl, siglevel)))
               ELSE CITerm(px, M - Nobs, CISigma(sigma), 0)
        dxu == IF HasOrderStatistic(xu, siglevel)
               THEN NumTerm(RatSub(OrderStatistic(xu, siglevel), px))
               ELSE CITerm(px, M - Nobs, CISigma(sigma), 1)
        dyl == IF HasOrderStatistic(yl, siglevel)
               THEN NumTerm(RatSub(py, OrderStatistic(yl, siglevel)))
               ELSE CITerm(py, Nobs, CISigma(sigma), 0)
        dyu == IF HasOrderStatistic(yu, siglevel)
               THEN NumTerm(RatSub(OrderStatistic(yu, siglevel), py))
               ELSE CITerm(py, Nobs, CISigma(sigma), 1)
    IN  [dx |-> <<dxl, dxu>>, dy |-> <<dyl, dyu>>]

\* line 352: the band loop runs over the thresholds of the first row
BandCount(thresh) == Len(thresh[1])

\* lines 352-387.  The loop reads x[i+1] for every threshold of the first
\* row, dropped or not: past the end of x that is an IndexError, raised in
\* the comprehension when pairs is not empty and in the except clause when
\* it is.
BandsRaise(pts, thresh) == BandCount(thresh) + 1 > Len(pts)

Bands(pts, pairs, thresh, M, Nobs, sigma) ==
    AsTuple([i \in 1..BandCount(thresh) |->
        PointBands(pairs, pts[i + 1][1], pts[i + 1][2], M, Nobs, sigma)])

\* lines 256-257: obs stacked on the replicate matrix
Stack(d, b) == <<Observed(d)>> \o b.rows

\* the value _calc_curve returns (line 393)
CurveVal(x, y, dx, dy, thresh, counts) ==
    [x |-> x, y |-> y, dx |-> dx, dy |-> dy, thresh |-> thresh, counts |-> counts]

NoCurve == CurveVal(<< >>, << >>, << >>, << >>, << >>, << >>)

\* line 393: the tuple returned, with the anchors' bands of lines 347-348
\* and 389-390
CurveResult(pts, bands, thresh, counts) ==
    [err |-> "none",
     val |-> CurveVal(AsTuple([i \in 1..Len(pts) |-> pts[i][1]]),
                 AsTuple([i \in 1..Len(pts) |-> pts[i][2]]),
                 <<ZeroBand>> \o [i \in 1..Len(bands) |-> bands[i].dx] \o <<ZeroBand>>,
                 <<ZeroBand>> \o [i \in 1..Len(bands) |-> bands[i].dy] \o <<ZeroBand>>,
                 thresh, counts)]

\* lines 347-393, from the primary points and the null population
CurveOfPoints(pts, pairs, thresh, counts, M, Nobs, sigma) ==
    IF BandsRaise(pts, thresh)
    THEN [err |-> "IndexError", val |-> NoCurve]
    ELSE CurveResult(pts, Bands(pts, pairs, thresh, M, Nobs, sigma), thresh, counts)

\* lines 300-393, from the counts of every row at every threshold
CurveOfCounts(curve, thresh, counts, M, Nobs, sigma) ==
    CurveOfPoints(PrimaryPoints(curve, counts), NullPairs(curve, counts),
                  thresh, counts, M, Nobs, sigma)

\* lines 309-320: the counts of every row at each of its thresholds
RowCounts(forecast, observed, thresh) ==
    AsTuple([j \in 1..Len(observed) |->
        AsTuple([k \in 1..Len(thresh[j]) |->
            Counts(forecast, observed[j], thresh[j][k])])])

\* lines 261-298: the thresholds of every row
AllThresholds(forecast, observed, threshold, unit) ==
    AsTuple([j \in 1..Len(observed) |->
        RowThresholds(forecast, observed[j], threshold, unit)])

\* lines 300-393, from the thresholds
CurveOfThresholds(forecast, observed, curve, thresh, M, Nobs, sigma) ==
    CurveOfCounts(curve, thresh, RowCounts(forecast, observed, thresh), M, Nobs, sigma)

\* lines 256-393, for _boot already set: the exception raised and the tuple
\* returned.  thresh and counts are the thresholds of every row and the
\* confusion counts at each, kept for inspection.
CalcCurve(d, b, curve, threshold, unit, sigma) ==
    IF ThresholdsRaise(threshold, unit)
    THEN [err |-> "ZeroDivisionError", val |-> NoCurve]
    ELSE CurveOfThresholds(Forecasts(d), Stack(d, b), curve,
             AllThresholds(Forecasts(d), Stack(d, b), threshold, unit),
             Len(d), EventCount(d), sigma)

---------------------------------------------------------------------------
(* Probabilistic._calc_curve_area *)

\* A band of an area is a sum of half-widths weighted by numbers: a number q
\* plus a set of <<analytic half-width, weight>> with distinct half-widths
\* and non-zero weights.
LinNum(q) == [q |-> q, ci |-> {}]

LinTerm(t) == IF t.kind = "num" THEN LinNum(t.q) ELSE [q |-> Zero, ci |-> {<<t, One>>}]

Weight(l, t) == IF \E e \in l.ci : e[1] = t THEN (CHOOSE e \in l.ci : e[1] = t)[2] ELSE Zero

LinAdd(l, m) ==
    [q |-> RatAdd(l.q, m.q),
     ci |-> {e \in {<<t, RatAdd(Weight(l, t), Weight(m, t))>> :
                        t \in {e[1] : e \in l.ci \cup m.ci}} : e[2] # Zero}]

LinScale(l, r) ==
    [q |-> RatMul(l.q, r), ci |-> {e \in {<<f[1], RatMul(f[2], r)>> : f \in l.ci} : e[2] # Zero}]

ZeroLin == <<LinNum(Zero), LinNum(Zero)>>

IsZeroBand(band) == band = ZeroBand

\* the order sorted() puts two zipped points in (line 517): by x, then y, then
\* the bands; of two points with equal x and y the one with the 0.0 bands of
\* an anchor comes first
PointLT(u, v) ==
    \/ RatLT(u.x, v.x)
    \/ u.x = v.x /\ RatLT(u.y, v.y)
    \/ u.x = v.x /\ u.y = v.y /\ IsZeroBand(u.dx) /\ IsZeroBand(u.dy)
         /\ ~(IsZeroBand(v.dx) /\ IsZeroBand(v.dy))

RECURSIVE InsertPoint(_, _)
InsertPoint(s, v) ==
    IF s = << >> THEN <<v>>
    ELSE IF PointLT(v, Head(s)) THEN <<v>> \o s
    ELSE <<Head(s)>> \o InsertPoint(Tail(s), v)

RECURSIVE SortPoints(_)
SortPoints(s) == IF s = << >> THEN << >> ELSE InsertPoint(SortPoints(Tail(s)), Head(s))

Min(a, b) == IF a < b THEN a ELSE b

\* line 517: sorted(zip(x, y, dx, dy)); zip stops at the shortest sequence
SortedZip(x, y, dx, dy) ==
    LET n == Min(Min(Len(x), Len(y)), Min(Len(dx), Len(dy)))
    IN  SortPoints(Reverse(
            [i \in 1..n |-> [x |-> x[i], y |-> y[i], dx |-> dx[i], dy |-> dy[i]]]))

\* a random-guess reference that grows with x instead of x**2
ReferenceLinear(curve, model, x) ==
    IF model = << >> THEN Zero
    ELSE IF curve = "ROC" THEN RatMul(Rat(1, 2), x)
         ELSE RatSub(x, RatMul(Rat(1, 2), x))

\* lines 550-563: the area of the reference model at x (model None or 0)
Reference(curve, model, x) ==
    IF model = << >> THEN Zero
    ELSE IF curve = "ROC" THEN RatMul(Rat(1, 2), RatMul(x, x))
         ELSE RatSub(x, RatMul(Rat(1, 2), RatMul(x, x)))

\* the quotients taken without the try of line 565
SkillOverUnguarded(x, area, da, ref, den) ==
    [x |-> x, area |-> area, da |-> da,
     skill |-> RatDiv(RatSub(area, ref), den),
     ds |-> <<LinScale(da[1], RatDiv(One, den)), LinScale(da[2], RatDiv(One, den))>>]

\* lines 565-571: the skill and its band over the denominator X[i] - ref; a
\* zero denominator raises and is caught
SkillOver(x, area, da, ref, den) ==
    [x |-> x, area |-> area, da |-> da,
     skill |-> IF den = Zero THEN Zero ELSE RatDiv(RatSub(area, ref), den),
     ds |-> IF den = Zero THEN ZeroLin
            ELSE <<LinScale(da[1], RatDiv(One, den)), LinScale(da[2], RatDiv(One, den))>>]

\* the skill over half the denominator
SkillStepHalved(x, area, da, ref) ==
    SkillOver(x, area, da, ref, RatMul(Rat(1, 2), RatSub(x, ref)))

SkillStep(x, area, da, ref) == SkillOver(x, area, da, ref, RatSub(x, ref))

\* lines 541-571: the area, its band and the skill at x, from the sums; low
\* is sum - suml and upp is sumu - sum
AreaStep(curve, model, x, sum, low, upp) ==
    SkillStep(x,
              IF curve = "ROC" THEN sum ELSE RatSub(x, sum),
              IF curve = "ROC" THEN <<low, upp>> ELSE <<upp, low>>,
              Reference(curve, model, x))

\* the whole width X[i] - X[i-1]
WholeStep(P, i) == RatSub(P[i].x, P[i - 1].x)

\* 0.5*(X[i] - X[i-1])
HalfStep(P, i) == RatMul(Rat(1, 2), RatSub(P[i].x, P[i - 1].x))

\* lines 538-539: one more trapezoid of a band
BandStep(acc, t1, t0, w) == LinAdd(acc, LinScale(LinAdd(LinTerm(t1), LinTerm(t0)), w))

\* lines 527-571: the steps i.. of the integration, from the sums after
\* step i-1
RECURSIVE Integrate(_, _, _, _, _, _, _)
RECURSIVE IntegrateFrom(_, _, _, _, _, _, _)
IntegrateFrom(curve, model, P, i, sum, low, upp) ==
    <<AreaStep(curve, model, P[i].x, sum, low, upp)>>
    \o Integrate(curve, model, P, i + 1, sum, low, upp)

Integrate(curve, model, P, i, sum, low, upp) ==
    IF i > Len(P) THEN << >>
    ELSE IntegrateFrom(curve, model, P, i,
             RatAdd(sum, RatMul(HalfStep(P, i), RatAdd(P[i].y, P[i - 1].y))),
             BandStep(low, P[i].dy[1], P[i - 1].dy[1], HalfStep(P, i)),
             BandStep(upp, P[i].dy[2], P[i - 1].dy[2], HalfStep(P, i)))

AreaVal(x, area, skill, da, ds) ==
    [x |-> x, area |-> area, skill |-> skill, da |-> da, ds |-> ds]

\* lines 510-514 and 574: the five tuples, from the sorted points and the steps
AreaOfSteps(P, steps) ==
    AreaVal(AsTuple([i \in 1..Len(P) |-> P[i].x]),
            <<Zero>> \o [i \in 1..Len(steps) |-> steps[i].area],
            <<Zero>> \o [i \in 1..Len(steps) |-> steps[i].skill],
            <<ZeroLin>> \o [i \in 1..Len(steps) |-> steps[i].da],
            <<ZeroLin>> \o [i \in 1..Len(steps) |-> steps[i].ds])

AreaOfPoints(curve, model, P) ==
    AreaOfSteps(P, Integrate(curve, model, P, 2, Zero, LinNum(Zero), LinNum(Zero)))

\* lines 510-574: the five tuples returned for the curve <<x, y, dx, dy>>
CalcCurveArea(curve, x, y, dx, dy, model) ==
    AreaOfPoints(curve, model, SortedZip(x, y, dx, dy))

---------------------------------------------------------------------------
(* Forecast.stats and Probabilistic._calc_stats *)

\* lines 96-111 of Probabilistic.py: <<BS, BSS>>
CalcStats(d) ==
    LET N == Rat(Len(d), 1)
        F == Forecasts(d)
        O == IntsAsRats(Observed(d))
        C == RatDiv(RatSum(O), N)
        sq(u) == RatMul(u, u)
        BS == RatDiv(RatSum([i \in 1..Len(d) |-> sq(RatSub(F[i], O[i]))]), N)
        BSC == RatDiv(RatSum([i \in 1..Len(d) |-> sq(RatSub(F[i], C))]), N)
    IN  <<BS, RatSub(One, RatDiv(BS, BSC))>>

---------------------------------------------------------------------------
(* Probabilistic.roc, error, roc_area, error_area and Forecast.stats *)

\* a call that computes from the replicate matrix it finds and then discards
\* the matrix
CurveCallDiscard(d, b, r, curve, threshold, unit, sigma) ==
    IF b.set
    THEN {[boot |-> NoBoot, rng |-> r] @@ CalcCurve(d, b, curve, threshold, unit, sigma)}
    ELSE IF Len(d) = 0
    THEN {[boot |-> b, rng |-> r, err |-> "TypeError", val |-> NoCurve]}
    ELSE {LET bs == BootstrapFrom(d, b, 0, TRUE, << >>, << >>, r0)
          IN  [boot |-> bs.boot, rng |-> bs.rng]
              @@ (IF bs.err # "none" THEN [err |-> bs.err, val |-> NoCurve]
                  ELSE CalcCurve(d, bs.boot, curve, threshold, unit, sigma))
          : r0 \in SeedStates(<< >>)}

\* lines 253-393: _calc_curve from _boot = b and generator state r.  With no
\* _boot it first calls bootstrap(0), which reseeds the generator from
\* system entropy and can raise.  The set of possible outcomes.
CurveCall(d, b, r, curve, threshold, unit, sigma) ==
    IF b.set
    THEN {[boot |-> b, rng |-> r] @@ CalcCurve(d, b, curve, threshold, unit, sigma)}
    ELSE IF Len(d) = 0
    THEN {[boot |-> b, rng |-> r, err |-> "TypeError", val |-> NoCurve]}
    ELSE {LET bs == BootstrapFrom(d, b, 0, TRUE, << >>, << >>, r0)
          IN  [boot |-> bs.boot, rng |-> bs.rng]
              @@ (IF bs.err # "none" THEN [err |-> bs.err, val |-> NoCurve]
                  ELSE CalcCurve(d, bs.boot, curve, threshold, unit, sigma))
          : r0 \in SeedStates(<< >>)}

calc_curve(op, curve, threshold, unit, sigma) ==
    \E out \in CurveCall(data, boot, rng, curve, threshold, unit, sigma) :
        /\ boot' = out.boot
        /\ rng' = out.rng
        /\ ret' = Ret(op, <<threshold, unit, sigma>>, out.err, out.val)
        /\ UNCHANGED <<data, stats>>

\* lines 168-192
roc(threshold, unit, sigma) == calc_curve("roc", "ROC", threshold, unit, sigma)

\* lines 196-220
error(threshold, unit, sigma) == calc_curve("error", "ERROR", threshold, unit, sigma)

NoArea == AreaVal(<< >>, << >>, << >>, << >>, << >>)

\* lines 431-434 and 472-475 with x = None: the curve, then its area
calc_area(op, curve, model, threshold, unit, sigma) ==
    \E out \in CurveCall(data, boot, rng, curve, threshold, unit, sigma) :
        /\ boot' = out.boot
        /\ rng' = out.rng
        /\ ret' = Ret(op, <<model, threshold, unit, sigma>>, out.err,
                      IF out.err # "none" THEN NoArea
                      ELSE CalcCurveArea(curve, out.val.x, out.val.y,
                                         out.val.dx, out.val.dy, model))
        /\ UNCHANGED <<data, stats>>

roc_area(model, threshold, unit, sigma) ==
    calc_area("roc_area", "ROC", model, threshold, unit, sigma)

error_area(model, threshold, unit, sigma) ==
    calc_area("error_area", "ERROR", model, threshold, unit, sigma)

\* Forecast.py lines 89-99: stats(Test) with Test None, "BS" or "BSS";
\* map(None, *self._data) in _calc_stats raises TypeError for no data
StatsResult(st, Test) ==
    IF Test = << >> THEN st ELSE IF Test[1] = "BS" THEN <<st[1]>> ELSE <<st[2]>>

stats_call(Test) ==
    IF stats = NoStats /\ Len(data) = 0
    THEN /\ ret' = Ret("stats", <<Test>>, "TypeError", NoVal)
         /\ UNCHANGED <<data, boot, stats, rng>>
    ELSE /\ stats' = (IF stats = NoStats THEN CalcStats(data) ELSE stats)
         /\ ret' = Ret("stats", <<Test>>, "none", StatsResult(stats', Test))
         /\ UNCHANGED <<data, boot, rng>>

---------------------------------------------------------------------------
(* The inputs explored *)

\* add_data: the pairs (0.2, 0), (0.2, 2), (1.0, 1) are accepted; a forecast
\* of -0.1 or 1.1 and an observation of -1 or 0.5 are not
ValidPairsIn == {<<2, 0>>, <<2, 20>>, <<10, 10>>}
InvalidPairsIn == {<<-1, 10>>, <<11, 0>>, <<2, -10>>, <<10, 5>>}

\* a model distribution with more entries than there are observations: half
\* of its mass on the first observation and half past the last
LongModel == <<<<1, 0, 0, 0, 0, 1>>>>

\* bootstrap(N, observed, model, seed)
BootstrapIn ==
    {<<N, TRUE, << >>, seed>> : N \in 0..MaxBoot, seed \in {<< >>, <<7>>}}
    \cup {<<1, FALSE, << >>, <<7>>>>, <<1, FALSE, LongModel, <<7>>>>}

DefaultCurve == <<ThreshNone, TRUE, 196>>
DefaultArea == <<<< >>>> \o DefaultCurve

Init ==
    /\ data = << >>
    /\ boot = NoBoot
    /\ stats = NoStats
    /\ rng \in RngStates
    /\ ret = Idle
    /\ again = FALSE
    /\ booted = FALSE
    /\ samplers = << >>

\* what the caller knows after add_data and after bootstrap(N)
AfterAdd == booted' = (ret'.err # "none" /\ booted) /\ UNCHANGED samplers
AfterBootstrap(N) ==
    booted' = (booted \/ (ret'.err = "none" /\ N >= 1)) /\ UNCHANGED samplers
AfterOther == UNCHANGED <<booted, samplers>>

\* The caller makes a call when it is not looking at a result
Ready == ret = Idle

\* an accepted pair is added while the sequence is shorter than max
Admits(p, max) == (ForecastOk(p[1]) /\ ObservedOk(p[2])) => Len(data) < max

\* The caller repeats a curve call that returned, with the same arguments
AgainCurve ==
    /\ ret.op \in {"roc", "error"}
    /\ ret.err = "none"
    /\ ~again
    /\ again' = TRUE
    /\ \E threshold \in {ret.args[1]} : \E unit \in {ret.args[2]} :
       \E sigma \in {ret.args[3]} :
           IF ret.op = "roc" THEN roc(threshold, unit, sigma)
           ELSE error(threshold, unit, sigma)
    /\ AfterOther

\* The caller repeats a bootstrap that returned, with the same arguments
AgainBootstrap ==
    /\ ret.op = "bootstrap"
    /\ ret.err = "none"
    /\ ~again
    /\ again' = TRUE
    /\ \E N \in {ret.args[1]} : \E observed \in {ret.args[2]} :
       \E model \in {ret.args[3]} : \E seed \in {ret.args[4]} :
           /\ bootstrap(N, observed, model, seed)
           /\ AfterBootstrap(N)

Again == AgainCurve \/ AgainBootstrap

\* The caller is done with the result
Return ==
    /\ ret # Idle
    /\ ret' = Idle
    /\ again' = FALSE
    /\ UNCHANGED <<data, boot, stats, rng>>
    /\ AfterOther

(* The life cycle of a forecast object: every operation, default curves *)

AddData ==
    \E a \in ValidPairsIn \cup InvalidPairsIn :
        /\ Ready
        /\ Admits(a, MaxObs)
        /\ add_data(a[1], a[2])
        /\ again' = FALSE
        /\ AfterAdd

Bootstrap ==
    \E a \in BootstrapIn :
        /\ Ready
        /\ bootstrap(a[1], a[2], a[3], a[4])
        /\ again' = FALSE
        /\ AfterBootstrap(a[1])

Roc ==
    \E a \in {DefaultCurve} :
        /\ Ready
        /\ roc(a[1], a[2], a[3])
        /\ again' = FALSE
        /\ AfterOther

Error ==
    \E a \in {DefaultCurve} :
        /\ Ready
        /\ error(a[1], a[2], a[3])
        /\ again' = FALSE
        /\ AfterOther

RocArea ==
    \E a \in {DefaultArea} :
        /\ Ready
        /\ roc_area(a[1], a[2], a[3], a[4])
        /\ again' = FALSE
        /\ AfterOther

ErrorArea ==
    \E a \in {DefaultArea} :
        /\ Ready
        /\ error_area(a[1], a[2], a[3], a[4])
        /\ again' = FALSE
        /\ AfterOther

Stats ==
    \E Test \in {<< >>, <<"BSS">>} :
        /\ Ready
        /\ stats_call(Test)
        /\ again' = FALSE
        /\ AfterOther

Next ==
    \/ AddData
    \/ Bootstrap
    \/ Roc
    \/ Error
    \/ RocArea
    \/ ErrorArea
    \/ Stats
    \/ Again
    \/ Return

Spec == Init /\ [][Next]_vars

(* Curve construction under every threshold policy, on accepted data *)

\* <<threshold, unit, sigma>>: exact jumps, N = 0 and N = 2 uniform-width
\* thresholds, N = 2 and N = 0 uniform-mass thresholds, the list [0.5], and
\* exact jumps at one sigma
CurveIn ==
    {DefaultCurve, <<ThreshInt(0), TRUE, 196>>, <<ThreshInt(2), TRUE, 196>>,
     <<ThreshInt(2), FALSE, 196>>, <<ThreshInt(0), FALSE, 196>>,
     <<ThreshList(<<5>>), TRUE, 196>>, <<ThreshNone, TRUE, 100>>}

\* <<model, threshold, unit, sigma>>
AreaIn ==
    {DefaultArea, <<<<0>>>> \o DefaultCurve,
     <<<<0>>, ThreshInt(0), TRUE, 196>>}

\* bootstrap(N) unseeded, N >= 1
CurveBootstrapIn == {<<N, TRUE, << >>, << >>>> : N \in 1..MaxBoot}

CurveAddData ==
    \E a \in ValidPairsIn :
        /\ Ready
        /\ Admits(a, MaxCurveObs)
        /\ add_data(a[1], a[2])
        /\ again' = FALSE
        /\ AfterAdd

CurveBootstrap ==
    \E a \in CurveBootstrapIn :
        /\ Ready
        /\ bootstrap(a[1], a[2], a[3], a[4])
        /\ again' = FALSE
        /\ AfterBootstrap(a[1])

CurveRoc ==
    \E a \in CurveIn :
        /\ Ready
        /\ roc(a[1], a[2], a[3])
        /\ again' = FALSE
        /\ AfterOther

CurveError ==
    \E a \in CurveIn :
        /\ Ready
        /\ error(a[1], a[2], a[3])
        /\ again' = FALSE
        /\ AfterOther

CurveRocArea ==
    \E a \in AreaIn :
        /\ Ready
        /\ roc_area(a[1], a[2], a[3], a[4])
        /\ again' = FALSE
        /\ AfterOther

CurveErrorArea ==
    \E a \in AreaIn :
        /\ Ready
        /\ error_area(a[1], a[2], a[3], a[4])
        /\ again' = FALSE
        /\ AfterOther

NextCurve ==
    \/ CurveAddData
    \/ CurveBootstrap
    \/ CurveRoc
    \/ CurveError
    \/ CurveRocArea
    \/ CurveErrorArea
    \/ Again
    \/ Return

SpecCurve == Init /\ [][NextCurve]_vars

(* The worked example: (0.9, 1), (0.8, 1), (0.1, 0), (0.2, 0) *)

ScenarioPairs == {<<9, 10>>, <<8, 10>>, <<1, 0>>, <<2, 0>>}

ScenarioCurveIn == {DefaultCurve, <<ThreshList(<<5>>), TRUE, 196>>}

\* bootstrap(1, seed=7)
ScenarioBootstrapIn == {<<1, TRUE, << >>, <<7>>>>}

ScenarioAddData ==
    \E a \in ScenarioPairs :
        /\ Ready
        /\ Admits(a, MaxScenarioObs)
        /\ add_data(a[1], a[2])
        /\ again' = FALSE
        /\ AfterAdd

ScenarioBootstrap ==
    \E a \in ScenarioBootstrapIn :
        /\ Ready
        /\ bootstrap(a[1], a[2], a[3], a[4])
        /\ again' = FALSE
        /\ AfterBootstrap(a[1])

ScenarioRoc ==
    \E a \in ScenarioCurveIn :
        /\ Ready
        /\ roc(a[1], a[2], a[3])
        /\ again' = FALSE
        /\ AfterOther

ScenarioError ==
    \E a \in ScenarioCurveIn :
        /\ Ready
        /\ error(a[1], a[2], a[3])
        /\ again' = FALSE
        /\ AfterOther

NextScenario ==
    \/ ScenarioAddData
    \/ ScenarioBootstrap
    \/ ScenarioRoc
    \/ ScenarioError
    \/ Again
    \/ Return

SpecScenario == Init /\ [][NextScenario]_vars

(* The shape of the ROC curve and of its area: events at 0.2 and 1.0, *)
(* non-events at 0.5 and 1.0, exact-jump thresholds                    *)

ShapePairs == {<<2, 10>>, <<5, 0>>, <<10, 0>>, <<10, 10>>}

ShapeAddData ==
    \E a \in ShapePairs :
        /\ Ready
        /\ Admits(a, MaxShapeObs)
        /\ add_data(a[1], a[2])
        /\ again' = FALSE
        /\ AfterAdd

ShapeRoc ==
    \E a \in {DefaultCurve} :
        /\ Ready
        /\ roc(a[1], a[2], a[3])
        /\ again' = FALSE
        /\ AfterOther

ShapeRocArea ==
    \E model \in {<< >>, <<0>>} : \E a \in {DefaultCurve} :
        /\ Ready
        /\ roc_area(model, a[1], a[2], a[3])
        /\ again' = FALSE
        /\ AfterOther

NextShape == ShapeAddData \/ ShapeRoc \/ ShapeRocArea \/ Return

SpecShape == Init /\ [][NextShape]_vars

(* Forecast.histogram with bins an int and unit=None (balanced bins) *)

\* lines 167-173: the forecasts with an event, each once, sorted
RECURSIVE EventForecasts(_, _, _)
EventForecasts(d, i, thresh) ==
    IF i > Len(d) THEN SortAsc(thresh)
    ELSE EventForecasts(d, i + 1,
             IF d[i][2] >= 1 /\ ~\E k \in 1..Len(thresh) : thresh[k] = Tenths(d[i][1])
             THEN Append(thresh, Tenths(d[i][1]))
             ELSE thresh)

\* lines 175-177: the sizes of the N groups of Nobs values
Groups(Nobs, N) ==
    AsTuple([i \in 1..N |->
        IF i - 1 < Nobs % N THEN (Nobs \div N) + 1 ELSE Nobs \div N])

\* lines 180-186: the edges between the groups; indx is the sum of the
\* groups before group i, and thresh[indx], thresh[indx+1] of the code are
\* the elements indx+1 and indx+2 here.  An index past the end is caught
\* and the edge is left out.
RECURSIVE InnerEdges(_, _, _, _)
InnerEdges(thresh, groups, i, indx) ==
    IF i > Len(groups) - 1 THEN << >>
    ELSE (IF indx + groups[i] + 2 <= Len(thresh)
          THEN <<RatMul(Rat(1, 2), RatAdd(thresh[indx + groups[i] + 1],
                                           thresh[indx + groups[i] + 2]))>>
          ELSE << >>)
         \o InnerEdges(thresh, groups, i + 1, indx + groups[i])

\* lines 179-187: F.min(), the edges, F.max()
BalancedBins(d, thresh, N) ==
    <<SortedForecasts(Forecasts(d))[1]>>
    \o InnerEdges(thresh, Groups(Len(thresh), N), 1, 0)
    \o <<SortedForecasts(Forecasts(d))[Len(d)]>>

\* lines 210-228: where a forecast is counted: 0 is 'under', Len(bins) is
\* 'over', i is the bin between bins[i] and bins[i+1]
BinOf(bins, f) ==
    IF RatLT(f, bins[1]) THEN 0
    ELSE IF RatLT(bins[Len(bins)], f) THEN Len(bins)
    ELSE (CHOOSE i \in 2..Len(bins) :
              /\ RatLE(f, bins[i])
              /\ \A j \in 2..(i - 1) : ~RatLE(f, bins[j])) - 1

\* lines 207-228: [observations summed, sample size] of one place
RECURSIVE Tally(_, _, _, _)
Tally(d, bins, place, k) ==
    IF k > Len(d) THEN <<0, 0>>
    ELSE IF BinOf(bins, Tenths(d[k][1])) = place
         THEN <<d[k][2] + Tally(d, bins, place, k + 1)[1],
                1 + Tally(d, bins, place, k + 1)[2]>>
         ELSE Tally(d, bins, place, k + 1)

\* the dictionary returned, with the bins in place of their midpoints
HistVal(d, bins) ==
    [bins |-> bins,
     under |-> Tally(d, bins, 0, 1),
     over |-> Tally(d, bins, Len(bins), 1),
     hist |-> AsTuple([i \in 1..(Len(bins) - 1) |-> Tally(d, bins, i, 1)])]

\* histogram(N); map(None, *self._data) raises TypeError for no data
histogram(N) ==
    /\ ret' = IF Len(data) = 0
              THEN Ret("histogram", <<N>>, "TypeError", NoVal)
              ELSE Ret("histogram", <<N>>, "none",
                       HistVal(data, BalancedBins(data, EventForecasts(data, 1, << >>), N)))
    /\ UNCHANGED <<data, boot, stats, rng>>

HistPairs == {<<1, 10>>, <<2, 10>>, <<3, 10>>, <<4, 10>>, <<5, 0>>}

HistAddData ==
    \E a \in HistPairs :
        /\ Ready
        /\ Admits(a, MaxHistObs)
        /\ add_data(a[1], a[2])
        /\ again' = FALSE
        /\ AfterAdd

Histogram ==
    \E N \in 1..MaxBins :
        /\ Ready
        /\ histogram(N)
        /\ again' = FALSE
        /\ AfterOther

NextHistogram == HistAddData \/ Histogram \/ Return

SpecHistogram == Init /\ [][NextHistogram]_vars

(* ContingencyTable.py: the hit rate and the false-alarm rate of a table *)

\* the hit rate taken over the forecasts of occurrence, A / (A + B)
PODOverForecasts(A, B, C, D) == IF A + B = 0 THEN Zero ELSE Rat(A, A + B)

\* ContingencyTable._calc_stats lines 98-102: POD, 0 when A + C = 0
POD(A, B, C, D) == IF A + C = 0 THEN Zero ELSE Rat(A, A + C)

\* lines 113-117: POFD, 0 when B + D = 0
POFD(A, B, C, D) == IF B + D = 0 THEN Zero ELSE Rat(B, B + D)

\* ContingencyTable.set_data([A, B, C, D]): MultiContingencyTable.set_data
\* stores the 2x2 matrix and calls _calc_stats, whose base rate (line 81)
\* divides by the total outside any try
set_data(A, B, C, D) ==
    /\ ret' = IF A + B + C + D = 0
              THEN Ret("set_data", <<A, B, C, D>>, "ZeroDivisionError", NoVal)
              ELSE Ret("set_data", <<A, B, C, D>>, "none",
                       <<POD(A, B, C, D), POFD(A, B, C, D)>>)
    /\ UNCHANGED <<data, boot, stats, rng>>

\* Finley's tornado forecasts
Finley == <<28, 72, 23, 2680>>

TableIn == {Finley} \cup ((0..MaxCount) \X (0..MaxCount) \X (0..MaxCount) \X (0..MaxCount))

TableSetData ==
    \E t \in TableIn :
        /\ Ready
        /\ set_data(t[1], t[2], t[3], t[4])
        /\ again' = FALSE
        /\ AfterOther

NextTable == TableSetData \/ Return

SpecTable == Init /\ [][NextTable]_vars

(* GenericCDF objects used on their own: construction and draws *)

\* the object GenericCDF(array, seed=seed) constructs; drawn is the sequence
\* of indices (from 0) its draw() calls have returned
Sampler(array, numpy, seed, cdf) ==
    [array |-> array, numpy |-> numpy, seed |-> seed, cdf |-> cdf,
     drawn |-> << >>]

\* GenericCDF.__init__(array, seed=seed): random.seed(seed) on the module's
\* generator, then the cumulative sums; an exception constructs nothing
init_GenericCDF(array, numpy, seed) ==
    \E r0 \in SeedStates(seed) :
    \E c \in {GenericCDF(IntsAsRats(array), numpy)} :
        /\ rng' = r0
        /\ samplers' = IF c.err = "none"
                       THEN Append(samplers, Sampler(array, numpy, seed, c.cdf))
                       ELSE samplers
        /\ ret' = Ret("GenericCDF", <<array, numpy, seed>>, c.err, NoVal)
        /\ UNCHANGED <<data, boot, stats, booted>>

\* samplers[i].draw(): random.random() of the module's generator, then the
\* search; self._cdf[0] of an empty _cdf raises IndexError
draw(i) ==
    \E indx \in {Draw(samplers[i].cdf, RngValue(rng))} :
        /\ rng' = RngNext(rng)
        /\ samplers' = IF indx = 0 THEN samplers
                       ELSE [samplers EXCEPT ![i].drawn = Append(@, indx - 1)]
        /\ ret' = IF indx = 0
                  THEN Ret("draw", <<i>>, "IndexError", NoVal)
                  ELSE Ret("draw", <<i>>, "none", <<indx - 1>>)
        /\ UNCHANGED <<data, boot, stats, booted>>

\* weight sequences given to GenericCDF, as a list (FALSE) or a numpy array
WeightsIn ==
    {<<<< >>, FALSE>>, <<<<0, 0>>, FALSE>>, <<<<0, 0>>, TRUE>>,
     <<<<1, 0, 0>>, FALSE>>, <<<<0, 0, 1>>, FALSE>>, <<<<1, 1>>, FALSE>>}

\* the draws that have returned an index, over all samplers
RECURSIVE DrawsMade(_)
DrawsMade(ss) ==
    IF ss = << >> THEN 0 ELSE Len(Head(ss).drawn) + DrawsMade(Tail(ss))

SeedIn == {<< >>, <<7>>, <<8>>}

SamplerConstruct ==
    \E a \in WeightsIn : \E seed \in SeedIn :
        /\ Ready
        /\ Len(samplers) < MaxSamplers
        /\ init_GenericCDF(a[1], a[2], seed)
        /\ again' = FALSE

SamplerDraw ==
    \E i \in 1..Len(samplers) :
        /\ Ready
        /\ DrawsMade(samplers) < MaxDraws
        /\ draw(i)
        /\ again' = FALSE

NextSampler == SamplerConstruct \/ SamplerDraw \/ Return

SpecSampler == Init /\ [][NextSampler]_vars

---------------------------------------------------------------------------
(* Properties *)

IsCurve(r) == r.op \in {"roc", "error"}
IsArea(r) == r.op \in {"roc_area", "error_area"}
Returned(r) == r.err = "none"

RECURSIVE TotalOutcome(_)
TotalOutcome(d) == IF d = << >> THEN 0 ELSE Head(d)[2] + TotalOutcome(Tail(d))

\* C1: after bootstrap(N) returns, every row of the cached replicate matrix
\* sums to the sum of the observed outcome values of the observations.
C1_RowsSumToEventCount ==
    (ret.op = "bootstrap" /\ Returned(ret)) =>
        /\ boot.set
        /\ Len(boot.rows) = ret.args[1]
        /\ \A i \in 1..Len(boot.rows) : SumSeq(boot.rows[i]) = TotalOutcome(data)

\* a bootstrap of one replicate returned on data with three events in two
\* observations
C1_Witness ==
    /\ ret.op = "bootstrap" /\ Returned(ret)
    /\ Len(boot.rows) >= 1
    /\ TotalOutcome(data) = 3
    /\ \E j \in 1..Len(data) : boot.rows[1][j] >= 2

BadForecast(f) == f < 0 \/ f > 10
BadObserved(o) == o < 0 \/ o % 10 # 0

\* C2: add_data raises when the forecast is outside [0, 1] or the observation
\* is negative or not integral, and a call that raised left the observation
\* sequence, the replicate matrix and the cached statistics as they were.
C2_FailedAddChangesNothing ==
    [][(ret = Idle /\ ret'.op = "add_data") =>
          /\ (BadForecast(ret'.args[1]) \/ BadObserved(ret'.args[2]))
                => ret'.err = "ValueError"
          /\ ret'.err # "none" => (data' = data /\ boot' = boot /\ stats' = stats)]_vars

\* a rejected add_data on an object that holds observations, a replicate
\* matrix with a row and cached statistics
C2_Witness ==
    /\ ret.op = "add_data" /\ ret.err = "ValueError"
    /\ Len(data) >= 2
    /\ boot.set /\ Len(boot.rows) >= 1
    /\ stats # NoStats

\* C3: the stored sequence is the sequence of accepted pairs in the order
\* added: only a successful add_data changes it, by appending its pair; and
\* every stored pair has its forecast in [0, 1] and a non-negative integer
\* outcome.
C3_AppendOnly ==
    /\ [](\A i \in 1..Len(data) :
             /\ 0 <= data[i][1] /\ data[i][1] <= 10
             /\ data[i][2] \in Nat)
    /\ [][IF ret = Idle /\ ret'.op = "add_data" /\ ret'.err = "none"
          THEN data' = Append(data, <<ret'.args[1], ret'.args[2] \div 10>>)
          ELSE data' = data]_vars

\* an area call on three observations after statistics and a bootstrap
C3_Witness ==
    /\ IsArea(ret) /\ Returned(ret)
    /\ Len(data) = 3
    /\ stats # NoStats
    /\ Len(boot.rows) >= 1

Last(s) == s[Len(s)]

\* C4: the curve roc() returns starts at (1, 1) and ends at (0, 0); the curve
\* error() returns starts at (1, 0) and ends at (0, 1).
C4_Anchors ==
    /\ (ret.op = "roc" /\ Returned(ret)) =>
          /\ <<ret.val.x[1], ret.val.y[1]>> = <<One, One>>
          /\ <<Last(ret.val.x), Last(ret.val.y)>> = <<Zero, Zero>>
    /\ (ret.op = "error" /\ Returned(ret)) =>
          /\ <<ret.val.x[1], ret.val.y[1]>> = <<One, Zero>>
          /\ <<Last(ret.val.x), Last(ret.val.y)>> = <<Zero, One>>

\* an error curve with two points between its anchors
C4_Witness ==
    /\ ret.op = "error" /\ Returned(ret)
    /\ Len(ret.val.x) >= 4
    /\ Len(boot.rows) >= 1

\* C5 as claimed: the returned x is ascending, x[i] <= x[i+1].
C5_AscendingX ==
    (IsCurve(ret) /\ Returned(ret)) =>
        \A i \in 1..(Len(ret.val.x) - 1) : RatLE(ret.val.x[i], ret.val.x[i + 1])

\* C5 as amended: the returned x is descending, x[i] >= x[i+1], from the
\* anchor at x = 1 to the anchor at x = 0.
C5_DescendingX ==
    (IsCurve(ret) /\ Returned(ret)) =>
        \A i \in 1..(Len(ret.val.x) - 1) : RatGE(ret.val.x[i], ret.val.x[i + 1])

\* a curve of exact-jump thresholds whose x takes a value strictly between
\* the anchors
C5_Witness ==
    /\ IsCurve(ret) /\ Returned(ret)
    /\ ret.args[1] = ThreshNone
    /\ \E i \in 2..(Len(ret.val.x) - 1) :
           RatLT(Zero, ret.val.x[i]) /\ RatLT(ret.val.x[i], One)

\* the four cells of the confusion table of forecasts F and outcomes O at
\* threshold t, as sets of observations
Cells(F, O, t) ==
    LET I == 1..Len(F)
    IN  <<{i \in I : RatGE(F[i], t) /\ O[i] >= 1},
          {i \in I : RatGE(F[i], t) /\ O[i] < 1},
          {i \in I : RatLT(F[i], t) /\ O[i] >= 1},
          {i \in I : RatLT(F[i], t) /\ O[i] < 1}>>

ScenarioData == {<<9, 1>>, <<8, 1>>, <<1, 0>>, <<2, 0>>}

\* C6: at every threshold of every row the counts a, b, c, d are the sizes
\* of the four cells (forecast >= T or < T, outcome >= 1 or < 1) and add up
\* to the number of observations; and on {(0.9,1),(0.8,1),(0.1,0),(0.2,0)}
\* at T = 0.5 they are 2, 0, 0, 2 and the ROC point is (0, 1).
C6_ConfusionCounts ==
    (IsCurve(ret) /\ Returned(ret)) =>
        LET F == Forecasts(data)
            rows == Stack(data, boot)
        IN  /\ Len(ret.val.counts) = Len(rows)
            /\ \A j \in 1..Len(rows) : \A k \in 1..Len(ret.val.thresh[j]) :
                  LET n == ret.val.counts[j][k]
                      cells == Cells(F, rows[j], ret.val.thresh[j][k])
                  IN  /\ n = <<Cardinality(cells[1]), Cardinality(cells[2]),
                               Cardinality(cells[3]), Cardinality(cells[4])>>
                      /\ n[1] + n[2] + n[3] + n[4] = Len(data)
            /\ (/\ ret.op = "roc"
                /\ Len(data) = 4
                /\ {data[i] : i \in 1..4} = ScenarioData
                /\ ret.args[1] = ThreshList(<<5>>)) =>
                  /\ \E k \in 1..Len(ret.val.thresh[1]) :
                        ret.val.thresh[1][k] = Rat(1, 2)
                  /\ \A k \in 1..Len(ret.val.thresh[1]) :
                        ret.val.thresh[1][k] = Rat(1, 2) =>
                            /\ ret.val.counts[1][k] = <<2, 0, 0, 2>>
                            /\ <<ret.val.x[k + 1], ret.val.y[k + 1]>> = <<Zero, One>>

\* roc(threshold=[0.5]) returned on the four observations of the scenario,
\* with a replicate row in the matrix
C6_Witness ==
    /\ ret.op = "roc" /\ Returned(ret)
    /\ ret.args[1] = ThreshList(<<5>>)
    /\ Len(data) = 4
    /\ {data[i] : i \in 1..4} = ScenarioData
    /\ Len(boot.rows) >= 1

\* C7: on a non-empty dataset roc() and error() return without raising,
\* whatever the threshold policy and whatever the outcomes.
C7_CurvesNeverRaise ==
    (IsCurve(ret) /\ Len(data) >= 1) => Returned(ret)

\* C8: the four tuples roc() and error() return have one length, and so have
\* the five tuples roc_area() and error_area() return.
C8_EqualLengths ==
    /\ (IsCurve(ret) /\ Returned(ret)) =>
          /\ Len(ret.val.y) = Len(ret.val.x)
          /\ Len(ret.val.dx) = Len(ret.val.x)
          /\ Len(ret.val.dy) = Len(ret.val.x)
    /\ (IsArea(ret) /\ Returned(ret)) =>
          /\ Len(ret.val.area) = Len(ret.val.x)
          /\ Len(ret.val.skill) = Len(ret.val.x)
          /\ Len(ret.val.da) = Len(ret.val.x)
          /\ Len(ret.val.ds) = Len(ret.val.x)

CurveOf(op) == IF op = "roc" THEN "ROC" ELSE "ERROR"

\* the replicate matrix of bootstrap(0)
EmptyBoot == [set |-> TRUE, cols |-> Len(data), rows |-> << >>]

\* C9: the x and y a curve call returns are those computed from the
\* observations alone, whatever replicate matrix is cached.
C9_PrimaryFromDataOnly ==
    (IsCurve(ret) /\ Returned(ret)) =>
        LET alone == CalcCurve(data, EmptyBoot, CurveOf(ret.op),
                               ret.args[1], ret.args[2], ret.args[3])
        IN  /\ alone.err = "none"
            /\ ret.val.x = alone.val.x
            /\ ret.val.y = alone.val.y

\* a curve returned while the matrix holds a replicate, with a band that
\* differs from the one computed without replicates
C9_Witness ==
    /\ IsCurve(ret) /\ Returned(ret)
    /\ Len(boot.rows) >= 1
    /\ Len(ret.val.x) >= 3
    /\ ret.val.dx # CalcCurve(data, EmptyBoot, CurveOf(ret.op),
                              ret.args[1], ret.args[2], ret.args[3]).val.dx

\* C10: a curve call repeated with the same arguments, nothing in between,
\* returns the same (x, y, dx, dy).
C10_RepeatCall ==
    [][(IsCurve(ret) /\ Returned(ret) /\ ~again /\ again') =>
          /\ ret'.op = ret.op /\ ret'.args = ret.args
          /\ ret'.err = ret.err
          /\ ret'.val.x = ret.val.x
          /\ ret'.val.y = ret.val.y
          /\ ret'.val.dx = ret.val.dx
          /\ ret'.val.dy = ret.val.dy]_vars

\* the second of two calls has returned a curve whose band comes from a
\* replicate
C10_Witness ==
    /\ again
    /\ IsCurve(ret) /\ Returned(ret)
    /\ Len(boot.rows) >= 1
    /\ ret.val.dx # CalcCurve(data, EmptyBoot, CurveOf(ret.op),
                              ret.args[1], ret.args[2], ret.args[3]).val.dx

\* C16: bootstrap with an explicit seed is reproducible, whatever the source
\* of the distribution: repeated with the same arguments on the same
\* observations it returns again and leaves the same replicate matrix.
C16_SeededBootstrapRepeats ==
    [][(/\ ret.op = "bootstrap" /\ Returned(ret)
        /\ ret.args[4] # << >>
        /\ ~again /\ again') =>
          (ret'.err = "none" /\ boot' = boot)]_vars

IsAnalytic(band, p) ==
    /\ band[1].kind = "CI" /\ band[1].p = p
    /\ band[2].kind = "CI" /\ band[2].p = p

\* C17: when no bootstrap(N), N >= 1, has returned since the last pair was
\* accepted, every band of a non-anchor point that roc() or error() returns
\* is the analytic interval around that point.
C17_AnalyticWithoutBootstrap ==
    (IsCurve(ret) /\ Returned(ret) /\ ~booted) =>
        \A i \in 2..(Len(ret.val.dx) - 1) :
            /\ IsAnalytic(ret.val.dx[i], ret.val.x[i])
            /\ IsAnalytic(ret.val.dy[i], ret.val.y[i])

RECURSIVE Prefix(_, _)
Prefix(array, k) == IF k = 0 THEN 0 ELSE array[k] + Prefix(array, k - 1)

Total(array) == Prefix(array, Len(array))

\* the indices (from 1) whose normalised cumulative weight is at least u
Reaching(array, u) ==
    {k \in 1..Len(array) : Prefix(array, k) * u[2] >= u[1] * Total(array)}

\* the smallest of them, counted from 0, or the last index when none is
SmallestReaching(array, u) ==
    IF Reaching(array, u) = {} THEN Len(array) - 1
    ELSE (CHOOSE k \in Reaching(array, u) :
              \A j \in Reaching(array, u) : k <= j) - 1

\* C12: over weights of positive total, draw() never returns an index whose
\* weight is zero, whatever value the uniform source produces.
C12_NeverZeroWeight ==
    (/\ ret.op = "draw" /\ Returned(ret)
     /\ Total(samplers[ret.args[1]].array) > 0) =>
        samplers[ret.args[1]].array[ret.val[1] + 1] # 0

\* C13: for a sampler over a non-empty weight sequence of positive total,
\* draw() returns the smallest index whose normalised cumulative weight is
\* at least the uniform value drawn (the last index when there is none),
\* an index of the weight sequence.
C13_SmallestIndex ==
    [][\A i \in 1..Len(samplers) :
        (/\ ret = Idle /\ ret'.op = "draw" /\ ret'.args = <<i>>
         /\ Total(samplers[i].array) > 0) =>
            /\ Returned(ret')
            /\ ret'.val = <<SmallestReaching(samplers[i].array, RngValue(rng))>>
            /\ ret'.val[1] \in 0..(Len(samplers[i].array) - 1)]_vars

C13_Witness ==
    /\ ret.op = "draw" /\ Returned(ret)
    /\ samplers[ret.args[1]].array = <<1, 1>>
    /\ samplers[ret.args[1]].drawn = <<0, 1>>

\* C14: constructing a sampler from an empty weight sequence or from weights
\* that are all zero fails at construction.
C14_EmptyOrZeroFails ==
    (/\ ret.op = "GenericCDF"
     /\ \A k \in 1..Len(ret.args[1]) : ret.args[1][k] = 0) =>
        ~Returned(ret)

\* the indices n draws return when the sampler has a generator of its own,
\* in state s
RECURSIVE PrivateDraws(_, _, _)
PrivateDraws(cdf, s, n) ==
    IF n = 0 THEN << >>
    ELSE <<Draw(cdf, RngValue(s)) - 1>> \o PrivateDraws(cdf, RngNext(s), n - 1)

\* C15: the indices a sampler constructed with an explicit seed has drawn
\* are determined by its seed and weights alone, whatever other samplers
\* were constructed or drawn from in between.
C15_SeededDeterministic ==
    \A i \in 1..Len(samplers) :
        samplers[i].seed # << >> =>
            \A s \in SeedStates(samplers[i].seed) :
                samplers[i].drawn =
                    PrivateDraws(samplers[i].cdf, s, Len(samplers[i].drawn))

\* C18: the area roc_area() reports at the last point of the curve (the
\* largest x) lies in [0, 1].
C18_RocAreaInUnitInterval ==
    (ret.op = "roc_area" /\ Returned(ret)) =>
        /\ RatLE(Zero, Last(ret.val.area))
        /\ RatLE(Last(ret.val.area), One)

C18_Witness ==
    /\ ret.op = "roc_area" /\ Returned(ret)
    /\ Len(ret.val.x) >= 3
    /\ Last(ret.val.area) = One

AreaCurve(r) == IF r.op = "roc_area" THEN "ROC" ELSE "ERROR"

\* the points after the first whose x equals the reference area there
ZeroDenominators(r) ==
    {i \in 2..Len(r.val.x) :
        r.val.x[i] = Reference(AreaCurve(r), r.args[1], r.val.x[i])}

\* C20: roc_area() and error_area() report skill 0 with band (0, 0) at every
\* point where x equals the reference area, and return one skill and one
\* band for each point.
C20_ZeroDenominatorSkill ==
    (IsArea(ret) /\ Returned(ret)) =>
        /\ Len(ret.val.skill) = Len(ret.val.x)
        /\ Len(ret.val.ds) = Len(ret.val.x)
        /\ \A i \in ZeroDenominators(ret) :
               ret.val.skill[i] = Zero /\ ret.val.ds[i] = ZeroLin

C20_Witness ==
    /\ IsArea(ret) /\ Returned(ret)
    /\ ret.args[1] = <<0>>
    /\ ZeroDenominators(ret) # {}
    /\ \E i \in 2..Len(ret.val.x) : i \notin ZeroDenominators(ret)

NoTies(d) == \A i, j \in 1..Len(d) : i # j => d[i][1] # d[j][1]

\* C11: on observations with no tied forecast values, the points roc()
\* computes at the exact-jump thresholds, in order of increasing threshold
\* (the returned points between the two anchors), have non-increasing x and
\* non-increasing y.
C11_RocMonotone ==
    (/\ ret.op = "roc" /\ Returned(ret)
     /\ ret.args[1] = ThreshNone /\ NoTies(data)) =>
        \A i \in 2..(Len(ret.val.x) - 2) :
            /\ RatGE(ret.val.x[i], ret.val.x[i + 1])
            /\ RatGE(ret.val.y[i], ret.val.y[i + 1])

C11_Witness ==
    /\ ret.op = "roc" /\ Returned(ret)
    /\ ret.args[1] = ThreshNone /\ NoTies(data)
    /\ Len(ret.val.x) = 4
    /\ RatLT(ret.val.x[3], ret.val.x[2])
    /\ RatLT(ret.val.y[3], ret.val.y[2])

\* the ROC curve of the observations has all its points on y = x
DiagonalRoc(r) ==
    LET c == CalcCurve(data, EmptyBoot, "ROC", r.args[2], r.args[3], r.args[4])
    IN  c.err = "none" /\ c.val.x = c.val.y

BelongsToData(b) ==
    b.set => (b.cols = Len(data') /\ \A i \in 1..Len(b.rows) : Len(b.rows[i]) = b.cols)

C23_FailedBootstrapKeepsMatrix ==
    [][(ret'.op = "bootstrap" /\ ~Returned(ret')) => boot' = boot]_vars

\* C24: stats() returns the statistics of the current observations, never a
\* value cached before a later accepted add_data.
C24_StatsAreCurrent ==
    (ret.op = "stats" /\ Returned(ret)) =>
        ret.val = StatsResult(CalcStats(data), ret.args[1])

C24_Witness ==
    /\ ret.op = "stats" /\ Returned(ret)
    /\ Len(data) = 3
    /\ ret.val = StatsResult(CalcStats(data), ret.args[1])
    /\ CalcStats(data) # CalcStats(SubSeq(data, 1, 2))

\* C25: with threshold=None the thresholds of each row are strictly
\* increasing: every forecast value with a positive outcome in the row is
\* listed once.
C25_ExactJumpsStrictlyIncrease ==
    (IsCurve(ret) /\ Returned(ret) /\ ret.args[1] = ThreshNone) =>
        \A j \in 1..Len(ret.val.thresh) :
            \A i \in 1..(Len(ret.val.thresh[j]) - 1) :
                RatLT(ret.val.thresh[j][i], ret.val.thresh[j][i + 1])

MinForecast(d) ==
    CHOOSE v \in {Forecasts(d)[i] : i \in 1..Len(d)} :
        \A i \in 1..Len(d) : RatLE(v, Forecasts(d)[i])

MaxForecast(d) ==
    CHOOSE v \in {Forecasts(d)[i] : i \in 1..Len(d)} :
        \A i \in 1..Len(d) : RatGE(v, Forecasts(d)[i])

\* C26: with an integer threshold N and unit=True the thresholds of each
\* row are N+1 evenly spaced values, the first the smallest forecast and
\* the last the largest forecast.
C26_UniformWidthSpansRange ==
    (/\ IsCurve(ret) /\ Returned(ret)
     /\ ret.args[1].kind = "int" /\ ret.args[2]) =>
        \A j \in 1..Len(ret.val.thresh) :
            /\ Len(ret.val.thresh[j]) = ret.args[1].n + 1
            /\ ret.val.thresh[j][1] = MinForecast(data)
            /\ Last(ret.val.thresh[j]) = MaxForecast(data)
            /\ \A i \in 2..(Len(ret.val.thresh[j]) - 1) :
                   RatSub(ret.val.thresh[j][i + 1], ret.val.thresh[j][i])
                       = RatSub(ret.val.thresh[j][i], ret.val.thresh[j][i - 1])

\* C21: the POD and POFD of a contingency table are a/(a+c) and b/(b+d),
\* the y and x the curve builder gives a ROC threshold with the same counts;
\* for Finley's counts they are 28/51 and 72/2752.
C21_TableRatesAreRocPoint ==
    (ret.op = "set_data" /\ Returned(ret)) =>
        /\ Point("ROC", ret.args) # << >> =>
               Point("ROC", ret.args) = <<<<ret.val[2], ret.val[1]>>>>
        /\ ret.args[1] + ret.args[3] > 0 =>
               ret.val[1] = Rat(ret.args[1], ret.args[1] + ret.args[3])
        /\ ret.args[2] + ret.args[4] > 0 =>
               ret.val[2] = Rat(ret.args[2], ret.args[2] + ret.args[4])
        /\ ret.args = Finley => ret.val = <<Rat(28, 51), Rat(72, 2752)>>

C21_Witness ==
    /\ ret.op = "set_data" /\ Returned(ret)
    /\ ret.args = Finley
    /\ ret.val = <<Rat(28, 51), Rat(72, 2752)>>
    /\ Point("ROC", ret.args) = <<<<Rat(72, 2752), Rat(28, 51)>>>>

\* the null points a curve call collected
NullOf(r) == NullPairs(IF r.op = "roc" THEN "ROC" ELSE "ERROR", r.val.counts)

InNeighbourhood(pairs, keep(_)) == {k \in 1..Len(pairs) : keep(pairs[k])}

\* term is the half-width of p on the side given: the analytic interval when
\* the neighbourhood has no null point, and otherwise the distance from p
\* to the null value of rank floor(coverage * k) among its k values
HalfWidthAsClaimed(term, pairs, keep(_), sel(_), p, upper, siglevel) ==
    LET S == InNeighbourhood(pairs, keep)
        r == (siglevel * Cardinality(S)) \div 1000
        before(v) == {j \in S : IF upper THEN RatLT(sel(pairs[j]), v)
                                ELSE RatLT(v, sel(pairs[j]))}
        upto(v) == {j \in S : IF upper THEN RatLE(sel(pairs[j]), v)
                              ELSE RatLE(v, sel(pairs[j]))}
    IN  IF S = {} THEN term.kind = "CI"
        ELSE /\ term.kind = "num"
             /\ \E m \in S :
                    /\ term.q = (IF upper THEN RatSub(sel(pairs[m]), p)
                                 ELSE RatSub(p, sel(pairs[m])))
                    /\ Cardinality(before(sel(pairs[m]))) <= r
                    /\ Cardinality(upto(sel(pairs[m]))) >= r + 1

PointAsClaimed(r, i) ==
    LET pairs == NullOf(r)
        px == r.val.x[i]
        py == r.val.y[i]
        lev == SigLevel(r.args[3])
    IN  /\ HalfWidthAsClaimed(r.val.dx[i][1], pairs,
               LAMBDA pt : RatLE(pt[1], px) /\ Near(pt[2], py),
               LAMBDA pt : pt[1], px, FALSE, lev)
        /\ HalfWidthAsClaimed(r.val.dx[i][2], pairs,
               LAMBDA pt : RatGE(pt[1], px) /\ Near(pt[2], py),
               LAMBDA pt : pt[1], px, TRUE, lev)
        /\ HalfWidthAsClaimed(r.val.dy[i][1], pairs,
               LAMBDA pt : RatLE(pt[2], py) /\ Near(pt[1], px),
               LAMBDA pt : pt[2], py, FALSE, lev)
        /\ HalfWidthAsClaimed(r.val.dy[i][2], pairs,
               LAMBDA pt : RatGE(pt[2], py) /\ Near(pt[1], px),
               LAMBDA pt : pt[2], py, TRUE, lev)

NonAnchors(r) == 2..(Min(Len(r.val.x), Len(r.val.dx)) - 1)

\* C27: each half-width of a non-anchor point is the empirical estimate, the
\* order statistic of rank floor(coverage * k) of the k null points in its
\* neighbourhood, whenever k >= 1, and the analytic interval exactly when
\* k = 0.
C27_EmpiricalWheneverPossible ==
    (IsCurve(ret) /\ Returned(ret)) =>
        \A i \in NonAnchors(ret) : PointAsClaimed(ret, i)

BandKinds(r, i) ==
    {r.val.dx[i][1].kind, r.val.dx[i][2].kind,
     r.val.dy[i][1].kind, r.val.dy[i][2].kind}

C27_Witness ==
    /\ IsCurve(ret) /\ Returned(ret)
    /\ \E i, j \in NonAnchors(ret) :
           /\ PointAsClaimed(ret, i) /\ BandKinds(ret, i) = {"num"}
           /\ PointAsClaimed(ret, j) /\ BandKinds(ret, j) = {"CI"}

\* C28: the analytic interval of a band is CI(p, n, sigma) with the sigma
\* the caller gave to roc() or error() (hundredths there, thousandths in
\* the term).
C28_FallbackAtCallersSigma ==
    (IsCurve(ret) /\ Returned(ret)) =>
        \A i \in 1..Len(ret.val.dx) : \A side \in 1..2 :
            /\ ret.val.dx[i][side].kind = "CI" =>
                   ret.val.dx[i][side].s = ret.args[3] * 10
            /\ ret.val.dy[i][side].kind = "CI" =>
                   ret.val.dy[i][side].s = ret.args[3] * 10

\* C29: the skill roc_area() and error_area() report against the
\* perfect-failure reference (model=None) and the random-guess reference
\* (model=0) is at most 1 at every x.
C29_SkillAtMostOne ==
    (IsArea(ret) /\ Returned(ret)) =>
        \A i \in 1..Len(ret.val.skill) : RatLE(ret.val.skill[i], One)

C29_Witness ==
    /\ IsArea(ret) /\ Returned(ret)
    /\ ret.args[1] = <<0>>
    /\ \E i \in 1..Len(ret.val.skill) : ret.val.skill[i] = One

\* the forecast values with an event that histogram counted in bin i
EventValuesIn(r, i) ==
    {k \in 1..Len(EventForecasts(data, 1, << >>)) :
        BinOf(r.val.bins, EventForecasts(data, 1, << >>)[k]) = i}

\* C30: histogram(N) with unit=None divides the K distinct forecast values
\* that carry an event among its bins so that, for K >= N, every bin holds
\* floor(K/N) or ceil(K/N) of them.
C30_BalancedBins ==
    (/\ ret.op = "histogram" /\ Returned(ret)
     /\ Len(EventForecasts(data, 1, << >>)) >= ret.args[1]) =>
        \A i \in 1..Len(ret.val.hist) :
            Cardinality(EventValuesIn(ret, i)) \in
                {Len(EventForecasts(data, 1, << >>)) \div ret.args[1],
                 (Len(EventForecasts(data, 1, << >>)) + ret.args[1] - 1)
                     \div ret.args[1]}

====
